---- MODULE Spec2Model ----
(***************************************************************************)
(* A model of the blueprint graph pipeline: the schema normalizer          *)
(* (ensureDefaultPins), the edge resolver (the validEdges pass of          *)
(* generateBlueprint) and the layered layout (getLayoutedElements).        *)
(*                                                                         *)
(* JavaScript values.  A JS object is a record; a property the object does *)
(* not have is a field the record does not have.  String-valued positions  *)
(* (label, nodeType, pin id/name/type, edge handles and ids) hold TLA+     *)
(* strings; reading a missing property gives UNDEFINED, and a label that   *)
(* is not a string (a number such as 5) is the reserved value NotAString.  *)
(* A null entry of a pin array is NullPin.  A TypeError raised by the code *)
(* is the value TypeError.                                                 *)
(***************************************************************************)
EXTENDS Integers, Sequences, FiniteSets, TLC

VARIABLES
    rawNode,     \* normalizer: the raw node record as it arrived (kept for comparison)
    node,        \* normalizer: the node object handed to ensureDefaultPins (mutated in place)
    nprev,       \* normalizer: the node object before the latest application
    napplied,    \* normalizer: how many times ensureDefaultPins has returned
    nthrew,      \* normalizer: TRUE once an application raised a TypeError
    parsedNodes,       \* generateBlueprint: parsed.nodes of the response
    parsedEdges,       \* generateBlueprint: parsed.edges of the response
    transformedNodes,  \* generateBlueprint: the normalized nodes
    mappedEdges,       \* generateBlueprint: what the edge callback returned per raw edge
    validEdges,        \* generateBlueprint: the edges that survive the filter
    gstatus,           \* generateBlueprint: "parsed", then "returned" or "threw"
    lnodes,      \* getLayoutedElements: the nodes argument
    ledges,      \* getLayoutedElements: the edges argument
    queue,       \* getLayoutedElements: the relaxation queue of {id, rank}
    ranks,       \* getLayoutedElements: ranks, defined on the ids visited so far
    positions,   \* getLayoutedElements: positions, defined on the ids placed
    lpc,         \* getLayoutedElements: "relax" (the while loop), then "done"
    lfirst,      \* handleAutoLayout: the positions the previous call returned
    lagain,      \* handleAutoLayout: TRUE once the layout runs on its own output
    enodes,      \* editor: the nodes state of App
    eedges,      \* editor: the edges state of App
    eprev,       \* editor: the edges state before the latest operation
    elast,       \* editor: the latest operation and its argument
    edgeReconnectSuccessful,  \* editor: the ref edgeReconnectSuccessful.current
    edrag,       \* editor: the edge of the reconnect gesture under way, and how far it got
    prompt,      \* App: the prompt state (the text of the textarea)
    loading,     \* App: the loading state
    error,       \* App: the error state, Null or [message |-> the text shown]
    pending      \* App: the generateBlueprint calls that have not settled yet

normVars == <<rawNode, node, nprev, napplied, nthrew>>
genVars == <<parsedNodes, parsedEdges, transformedNodes, mappedEdges, validEdges, gstatus>>
layoutVars == <<lnodes, ledges, queue, ranks, positions, lpc, lfirst, lagain>>
editVars == <<enodes, eedges, eprev, elast, edgeReconnectSuccessful, edrag>>
appVars == <<prompt, loading, error, pending>>
vars == <<normVars, genVars, layoutVars, editVars, appVars>>

(***************************************************************************)
(* Bounds of the model.                                                    *)
(***************************************************************************)
MaxPins == 2            \* longest raw pin list of a well-formed raw node
MaxApplications == 2    \* how often ensureDefaultPins is re-applied to its own result
MaxEdges == 2           \* longest list of raw edges in a response
MaxLayoutNodes == 3     \* most nodes of a graph handed to the layout
MaxLayoutEdges == 2     \* most edges of a graph handed to the layout
MaxRank == 4            \* ranks up to which the relaxation loop is followed
MaxEditorEdges == 3     \* most edges of the editor before a connection is made
MaxSessionEdges == 1    \* most edges a generation leaves to an editing session
MaxResultNodes == 2     \* most nodes of a generated blueprint handed to handleGenerate
MaxPending == 2         \* generateBlueprint calls followed while they are pending

(***************************************************************************)
(* JavaScript helpers.                                                     *)
(***************************************************************************)
UNDEFINED == "<undefined>"
NotAString == "<number 5>"
NullPin == [null |-> TRUE]
Null == [null |-> TRUE]
TypeError == [error |-> "TypeError"]

IsError(r) == "error" \in DOMAIN r
IsNull(p) == "null" \in DOMAIN p

\* o.f
Field(o, f) == IF f \in DOMAIN o THEN o[f] ELSE UNDEFINED

\* o.f = v
SetField(o, f, v) == [k \in (DOMAIN o) \cup {f} |-> IF k = f THEN v ELSE o[k]]

\* !!v for a string-valued position ("" and undefined are falsy)
Truthy(v) == v \notin {"", UNDEFINED}

\* String.prototype.startsWith
startsWith(s, p) == Len(s) >= Len(p) /\ SubSeq(s, 1, Len(p)) = p

\* String.prototype.includes
includes(s, p) == \E i \in 1..(Len(s) - Len(p) + 1) : SubSeq(s, i, i + Len(p) - 1) = p

\* Array.prototype.some(p => p[f] === v), when the callback does not throw
some(list, f, v) == \E i \in 1..Len(list) : ~IsNull(list[i]) /\ Field(list[i], f) = v

\* whether Array.prototype.some(p => p[f] === v) throws: it reads p[f] of a null
\* entry, which it reaches when no earlier entry matched
someThrows(list, f, v) ==
    \E i \in 1..Len(list) :
        /\ IsNull(list[i])
        /\ \A j \in 1..(i - 1) : IsNull(list[j]) \/ Field(list[j], f) # v

\* r, then step F unless r is a raised error
Then(r, F(_)) == IF IsError(r) THEN r ELSE F(r)

(***************************************************************************)
(* ensureDefaultPins, src/unnamed/part_000:26-133.                         *)
(***************************************************************************)
Pin(id, name, type) == [id |-> id, name |-> name, type |-> type]

\* if (!node.inputs.some(p => p.type === 'exec')) node.inputs.unshift({..._Exec})
unshiftExecInput(n) ==
    IF someThrows(n.inputs, "type", "exec") THEN TypeError
    ELSE IF ~some(n.inputs, "type", "exec")
         THEN [n EXCEPT !.inputs = <<Pin(n.id \o "_Exec", "Exec", "exec")>> \o @]
         ELSE n

\* if (!node.outputs.some(p => p.type === 'exec')) node.outputs.unshift({..._Output})
unshiftExecOutput(n) ==
    IF someThrows(n.outputs, "type", "exec") THEN TypeError
    ELSE IF ~some(n.outputs, "type", "exec")
         THEN [n EXCEPT !.outputs = <<Pin(n.id \o "_Output", "Output", "exec")>> \o @]
         ELSE n

\* if (!node.inputs.some(p => p.type === 'boolean')) node.inputs.push({..._Condition})
pushCondition(n) ==
    IF someThrows(n.inputs, "type", "boolean") THEN TypeError
    ELSE IF ~some(n.inputs, "type", "boolean")
         THEN [n EXCEPT !.inputs = Append(@, Pin(n.id \o "_Condition", "Condition", "boolean"))]
         ELSE n

\* if (!node.outputs.some(p => p.name === name)) node.outputs.push({id: `${node.id}_${suffix}`, name, type: 'exec'})
pushNamedOutput(n, name, suffix) ==
    IF someThrows(n.outputs, "name", name) THEN TypeError
    ELSE IF ~some(n.outputs, "name", name)
         THEN [n EXCEPT !.outputs = Append(@, Pin(n.id \o "_" \o suffix, name, "exec"))]
         ELSE n

pushTrue(n) == pushNamedOutput(n, "True", "True")
pushFalse(n) == pushNamedOutput(n, "False", "False")
pushLoopBody(n) == pushNamedOutput(n, "Loop Body", "LoopBody")
pushCompleted(n) == pushNamedOutput(n, "Completed", "Completed")

\* a Branch repair that forgets the "False" output
repairBranch_NoFalse(n) == Then(Then(unshiftExecInput(n), pushCondition), pushTrue)

\* 1. BRANCH / IF
repairBranch(n) == Then(Then(Then(unshiftExecInput(n), pushCondition), pushTrue), pushFalse)

\* 2. EVENTS
repairEvent(n) == unshiftExecOutput(n)

\* a Sequence repair that tests outputs.length <= 2
pushThenPins_AtMostTwo(n) ==
    IF Len(n.outputs) <= 2
    THEN [n EXCEPT !.outputs = @ \o <<Pin(n.id \o "_Then0", "Then 0", "exec"),
                                      Pin(n.id \o "_Then1", "Then 1", "exec")>>]
    ELSE n

\* if (node.outputs.length < 2) push Then 0 and Then 1
pushThenPins(n) ==
    IF Len(n.outputs) < 2
    THEN [n EXCEPT !.outputs = @ \o <<Pin(n.id \o "_Then0", "Then 0", "exec"),
                                      Pin(n.id \o "_Then1", "Then 1", "exec")>>]
    ELSE n

\* 3. SEQUENCE
repairSequence(n) == Then(unshiftExecInput(n), pushThenPins)

\* 4. SET VARIABLE, and 7. GENERIC EXECUTION NODES
repairExecBoth(n) == Then(unshiftExecInput(n), unshiftExecOutput)

\* 5. GET VARIABLE
repairVariableGet(n) ==
    LET swapped == IF Len(n.inputs) > 0 /\ Len(n.outputs) = 0
                   THEN [n EXCEPT !.outputs = n.inputs, !.inputs = <<>>]
                   ELSE n
    IN  IF Len(swapped.outputs) = 0
        THEN [swapped EXCEPT !.outputs = Append(@, Pin(n.id \o "_Value", "Value", "boolean"))]
        ELSE swapped

\* 6. FOR LOOP
repairForLoop(n) == Then(Then(unshiftExecInput(n), pushLoopBody), pushCompleted)

\* const label = node.label || ""
labelOf(raw) == IF Truthy(Field(raw, "label")) THEN raw.label ELSE ""

\* the label-only part of isLikelyPure
pureLabel(label) ==
    \/ startsWith(label, "Get ")
    \/ startsWith(label, "Make ")
    \/ startsWith(label, "Break ")
    \/ startsWith(label, "Is ")
    \/ startsWith(label, "Find ")
    \/ startsWith(label, "Select ")
    \/ includes(label, "Math")
    \/ includes(label, "+")
    \/ includes(label, "-")

isLikelyPure(type, label) == type = "variable_get" \/ pureLabel(label)

eventLabel(label) ==
    startsWith(label, "Event") \/ startsWith(label, "On ") \/ startsWith(label, "Input")

\* the seven rules, tried in the order of the source; the first that applies returns
ensureDefaultPinsRules(n, type, label) ==
    IF label = "Branch" \/ label = "If" THEN repairBranch(n)
    ELSE IF type = "event" \/ eventLabel(label) THEN repairEvent(n)
    ELSE IF label = "Sequence" THEN repairSequence(n)
    ELSE IF type = "variable_set" \/ startsWith(label, "Set ") THEN repairExecBoth(n)
    ELSE IF type = "variable_get" THEN repairVariableGet(n)
    ELSE IF label = "For Loop" \/ label = "ForEach Loop" THEN repairForLoop(n)
    ELSE IF ~isLikelyPure(type, label) /\ type # "comment" /\ type # "variable_get"
         THEN repairExecBoth(n)
    ELSE n

\* if (!node.inputs) node.inputs = []; if (!node.outputs) node.outputs = []
withPinLists(raw) ==
    LET n1 == SetField(raw, "inputs", IF "inputs" \in DOMAIN raw THEN raw.inputs ELSE <<>>)
    IN  SetField(n1, "outputs", IF "outputs" \in DOMAIN raw THEN raw.outputs ELSE <<>>)

\* The whole function: the node it returns, or the TypeError it raises.  A label
\* that is not a string has no startsWith: isLikelyPure raises unless
\* type === 'variable_get' short-circuits it, and then the event test raises.
ensureDefaultPins(raw) ==
    LET label == labelOf(raw)
        type  == Field(raw, "nodeType")
    IN  IF label = NotAString THEN TypeError
        ELSE ensureDefaultPinsRules(withPinLists(raw), type, label)

(***************************************************************************)
(* The raw node records the normalizer is checked on.                      *)
(***************************************************************************)
RawLabels == {"Branch", "If", "Sequence", "For Loop", "Set X", "Get X", "Event X", "Jump"}
RawKinds == {"event", "input_event", "function", "variable_get", "variable_set", "comment"}

\* raw pins: an Exec pin, a Boolean data pin named "True", an Exec pin named "Then 0"
RawPins == { Pin("N1_Exec", "Exec", "exec"),
             Pin("N1_True", "True", "boolean"),
             Pin("N1_Then0", "Then 0", "exec") }

RawPinLists == UNION { [1..n -> RawPins] : n \in 0..MaxPins }

WellFormedNodes ==
    { [id |-> "N1", label |-> l, nodeType |-> k, inputs |-> i, outputs |-> o] :
        l \in RawLabels, k \in RawKinds, i \in RawPinLists, o \in RawPinLists }

\* o with property f set when opt carries a value
WithOpt(o, f, opt) == IF opt.has THEN SetField(o, f, opt.v) ELSE o
Absent == [has |-> FALSE]
Present(v) == [has |-> TRUE, v |-> v]

\* records with a missing or non-string label, a missing kind, missing pin lists,
\* null pin entries and pins that lack fields
MalformedNodes ==
    { WithOpt(WithOpt(WithOpt(WithOpt([id |-> "N1"], "label", l), "nodeType", k),
                      "inputs", i), "outputs", o) :
        l \in {Absent, Present(NotAString), Present("Branch"), Present("Jump")},
        k \in {Absent, Present("event"), Present("variable_get")},
        i \in {Absent, Present(<<NullPin>>),
                Present(<<Pin("N1_Exec", "Exec", "exec"), NullPin>>),
                Present(<<[id |-> "N1_a"]>>)},
        o \in {Absent, Present(<<NullPin>>), Present(<<[name |-> "True"]>>)} }

RawNodes == WellFormedNodes \cup MalformedNodes

\* the variables of the other components, at rest
GenIdle ==
    /\ parsedNodes = <<>>
    /\ parsedEdges = <<>>
    /\ transformedNodes = <<>>
    /\ mappedEdges = <<>>
    /\ validEdges = <<>>
    /\ gstatus = "idle"

LayoutIdle ==
    /\ lnodes = <<>>
    /\ ledges = <<>>
    /\ queue = <<>>
    /\ ranks = <<>>
    /\ positions = <<>>
    /\ lpc = "idle"
    /\ lfirst = <<>>
    /\ lagain = FALSE

\* no reconnect gesture is under way
NoDrag == [phase |-> "none"]

EditIdle ==
    /\ enodes = <<>>
    /\ eedges = <<>>
    /\ eprev = <<>>
    /\ elast = [op |-> "none"]
    /\ edgeReconnectSuccessful = FALSE
    /\ edrag = NoDrag

AppIdle ==
    /\ prompt = ""
    /\ loading = FALSE
    /\ error = Null
    /\ pending = 0

NormIdle ==
    /\ rawNode = [id |-> "N1"]
    /\ node = [id |-> "N1"]
    /\ nprev = [id |-> "N1"]
    /\ napplied = 0
    /\ nthrew = FALSE

(***************************************************************************)
(* The normalizer applied to a raw node, and again to its own result.      *)
(***************************************************************************)
NormInit ==
    /\ rawNode \in RawNodes
    /\ node = rawNode
    /\ nprev = rawNode
    /\ napplied = 0
    /\ nthrew = FALSE
    /\ GenIdle
    /\ LayoutIdle
    /\ EditIdle
    /\ AppIdle

\* One call ensureDefaultPins(node).  A raised TypeError leaves the caller
\* without a node: generateBlueprint rethrows and discards the parsed graph.
Normalize ==
    /\ ~nthrew
    /\ napplied < MaxApplications
    /\ LET r == ensureDefaultPins(node)
       IN  IF IsError(r)
           THEN /\ nthrew' = TRUE
                /\ UNCHANGED <<node, nprev, napplied>>
           ELSE /\ node' = r
                /\ nprev' = node
                /\ napplied' = napplied + 1
                /\ UNCHANGED nthrew
    /\ UNCHANGED <<rawNode, genVars, layoutVars, editVars, appVars>>

NormNext == Normalize

NormSpec == NormInit /\ [][NormNext]_vars

(***************************************************************************)
(* generateBlueprint after the response is parsed,                         *)
(* src/unnamed/part_000:258-339: the node map and the edge resolver.       *)
(***************************************************************************)
LowerChar(c) ==
    CASE c = "A" -> "a" [] c = "B" -> "b" [] c = "C" -> "c" [] c = "D" -> "d"
      [] c = "E" -> "e" [] c = "F" -> "f" [] c = "G" -> "g" [] c = "H" -> "h"
      [] c = "I" -> "i" [] c = "J" -> "j" [] c = "K" -> "k" [] c = "L" -> "l"
      [] c = "M" -> "m" [] c = "N" -> "n" [] c = "O" -> "o" [] c = "P" -> "p"
      [] c = "Q" -> "q" [] c = "R" -> "r" [] c = "S" -> "s" [] c = "T" -> "t"
      [] c = "U" -> "u" [] c = "V" -> "v" [] c = "W" -> "w" [] c = "X" -> "x"
      [] c = "Y" -> "y" [] c = "Z" -> "z" [] OTHER -> c

\* String.prototype.toLowerCase
RECURSIVE toLowerCase(_)
toLowerCase(str) ==
    IF str = "" THEN ""
    ELSE LowerChar(SubSeq(str, 1, 1)) \o toLowerCase(SubSeq(str, 2, Len(str)))

\* the node object the map callback builds from ensureDefaultPins' result
transformNode(enrichedNode) ==
    [ id |-> enrichedNode.id,
      type |-> "customBlueprintNode",
      position |-> [x |-> 0, y |-> 0],
      data |-> [ label |-> Field(enrichedNode, "label"),
                 nodeType |-> Field(enrichedNode, "nodeType"),
                 inputs |-> enrichedNode.inputs,
                 outputs |-> enrichedNode.outputs ] ]

\* a variant of sourceExecLike that does not know the token "out"
sourceExecLike_NoOut(declared) ==
    LET sourceHandleStr == IF Truthy(declared) THEN toLowerCase(declared) ELSE ""
    IN  \/ ~Truthy(declared)
        \/ includes(sourceHandleStr, "exec")
        \/ includes(sourceHandleStr, "then")
        \/ includes(sourceHandleStr, "true")

\* a variant of targetExecLike that uses the tokens of the source side
targetExecLike_AsSource(declared) ==
    LET targetHandleStr == IF Truthy(declared) THEN toLowerCase(declared) ELSE ""
    IN  \/ ~Truthy(declared)
        \/ includes(targetHandleStr, "exec")
        \/ includes(targetHandleStr, "then")
        \/ includes(targetHandleStr, "true")
        \/ includes(targetHandleStr, "out")

\* a lookup that falls back to the first node when no node has the id
findNode_OrFirst(nodes, id) ==
    IF \E i \in 1..Len(nodes) : nodes[i].id = id
    THEN nodes[CHOOSE i \in 1..Len(nodes) :
                  /\ nodes[i].id = id
                  /\ \A j \in 1..(i - 1) : nodes[j].id # id]
    ELSE IF Len(nodes) > 0 THEN nodes[1] ELSE Null

\* Array.prototype.find(n => n.id === id): the first such node, or undefined (Null)
findNode(nodes, id) ==
    IF \E i \in 1..Len(nodes) : nodes[i].id = id
    THEN nodes[CHOOSE i \in 1..Len(nodes) :
                  /\ nodes[i].id = id
                  /\ \A j \in 1..(i - 1) : nodes[j].id # id]
    ELSE Null

\* Array.prototype.find(p => p.type === 'exec'): the first Exec pin, or undefined (Null)
findExecPin(pins) ==
    IF \E i \in 1..Len(pins) : Field(pins[i], "type") = "exec"
    THEN pins[CHOOSE i \in 1..Len(pins) :
                 /\ Field(pins[i], "type") = "exec"
                 /\ \A j \in 1..(i - 1) : Field(pins[j], "type") # "exec"]
    ELSE Null

\* the handle an unmatched declared handle falls back to: the first Exec pin
\* (exec-like handles only), else the first pin, else the declared handle itself
fallbackHandle(declared, pins, isExecLike) ==
    IF isExecLike /\ ~IsNull(findExecPin(pins)) THEN Field(findExecPin(pins), "id")
    ELSE IF Len(pins) > 0 THEN Field(pins[1], "id")
    ELSE declared

sourceExecLike(declared) ==
    LET sourceHandleStr == IF Truthy(declared) THEN toLowerCase(declared) ELSE ""
    IN  \/ ~Truthy(declared)
        \/ includes(sourceHandleStr, "exec")
        \/ includes(sourceHandleStr, "then")
        \/ includes(sourceHandleStr, "true")
        \/ includes(sourceHandleStr, "out")

targetExecLike(declared) ==
    LET targetHandleStr == IF Truthy(declared) THEN toLowerCase(declared) ELSE ""
    IN  ~Truthy(declared) \/ includes(targetHandleStr, "exec")

\* finalSourceHandle, lines 280-298
resolveSourceHandle(edge, sourceNode) ==
    LET declared == Field(edge, "sourceHandle")
        sourcePinExists == Truthy(declared) /\ some(sourceNode.data.outputs, "id", declared)
    IN  IF sourcePinExists THEN declared
        ELSE fallbackHandle(declared, sourceNode.data.outputs, sourceExecLike(declared))

\* finalTargetHandle, lines 300-314
resolveTargetHandle(edge, targetNode) ==
    LET declared == Field(edge, "targetHandle")
        targetPinExists == Truthy(declared) /\ some(targetNode.data.inputs, "id", declared)
    IN  IF targetPinExists THEN declared
        ELSE fallbackHandle(declared, targetNode.data.inputs, targetExecLike(declared))

\* the callback of parsed.edges.map, lines 274-328: the edge, or null
resolveEdge(edge, index, nodes) ==
    LET sourceNode == findNode(nodes, Field(edge, "source"))
        targetNode == findNode(nodes, Field(edge, "target"))
    IN  IF IsNull(sourceNode) \/ IsNull(targetNode) THEN Null
        ELSE LET finalSourceHandle == resolveSourceHandle(edge, sourceNode)
                 finalTargetHandle == resolveTargetHandle(edge, targetNode)
                 edgeId == IF Truthy(Field(edge, "id")) THEN edge.id
                           ELSE "e_" \o Field(edge, "source") \o "_" \o Field(edge, "target")
                                \o "_" \o ToString(index)
             IN  IF ~Truthy(finalSourceHandle) \/ ~Truthy(finalTargetHandle) THEN Null
                 ELSE [ id |-> edgeId,
                        source |-> edge.source,
                        target |-> edge.target,
                        sourceHandle |-> finalSourceHandle,
                        targetHandle |-> finalTargetHandle,
                        type |-> "default",
                        animated |-> FALSE ]

\* Array.prototype.filter(e => e !== null)
RECURSIVE filterNotNull(_)
filterNotNull(list) ==
    IF list = <<>> THEN <<>>
    ELSE IF IsNull(Head(list)) THEN filterNotNull(Tail(list))
         ELSE <<Head(list)>> \o filterNotNull(Tail(list))

(***************************************************************************)
(* The parsed responses generateBlueprint is checked on: two nodes, N1 and *)
(* N2, each of one of a few shapes, and up to MaxEdges raw edges.          *)
(***************************************************************************)
NodeShapes(id) ==
    { \* an event without pins: normalized to one Exec output and no input
      [id |-> id, label |-> "Event X", nodeType |-> "event", inputs |-> <<>>, outputs |-> <<>>],
      \* an impure function without pins: normalized to Exec input and Exec output
      [id |-> id, label |-> "Jump", nodeType |-> "function", inputs |-> <<>>, outputs |-> <<>>],
      \* a comment: normalized to no pins at all
      [id |-> id, label |-> "Note", nodeType |-> "comment", inputs |-> <<>>, outputs |-> <<>>],
      \* a function whose first pins are data pins and whose Exec pins come second
      [id |-> id, label |-> "Jump", nodeType |-> "function",
       inputs |-> <<Pin(id \o "_In", "In", "boolean"), Pin(id \o "_Exec", "Exec", "exec")>>,
       outputs |-> <<Pin(id \o "_Val", "Val", "integer"), Pin(id \o "_Then", "Then", "exec")>>],
      \* a comment with data pins only: normalized to the same pins, none Exec
      [id |-> id, label |-> "Note", nodeType |-> "comment",
       inputs |-> <<Pin(id \o "_In", "In", "boolean")>>,
       outputs |-> <<Pin(id \o "_Val", "Val", "integer")>>],
      \* a node whose label is not a string
      [id |-> id, label |-> NotAString] }

\* raw edges N1 -> N2 with every pair of declared handles, with and without a
\* declared id, and raw edges from or to a node N9 that does not exist
RawEdges ==
    { [source |-> "N1", target |-> "N2"],
      [source |-> "N1", target |-> "N2", id |-> "e1"],
      [source |-> "N1", target |-> "N2", id |-> "e1",
       sourceHandle |-> "N1_Then", targetHandle |-> "N2_Exec"],
      [source |-> "N9", target |-> "N2"],
      [source |-> "N1", target |-> "N9"],
      [source |-> "N9", target |-> "N2", sourceHandle |-> "bogus_out", targetHandle |-> "bogus"],
      [source |-> "N1", target |-> "N9", sourceHandle |-> "bogus_out", targetHandle |-> "bogus"] }
    \cup { [source |-> "N1", target |-> "N2", sourceHandle |-> sh, targetHandle |-> th] :
             sh \in {"bogus_out", "Data", "N1_Then"}, th \in {"then_in", "N2_Exec"} }
    \cup { [source |-> "N1", target |-> "N2", sourceHandle |-> sh] :
             sh \in {"bogus_out", "Data", "N1_Then"} }
    \cup { [source |-> "N1", target |-> "N2", targetHandle |-> th] :
             th \in {"then_in", "N2_Exec"} }

RawEdgeLists == UNION { [1..n -> RawEdges] : n \in 0..MaxEdges }

GenInit ==
    /\ parsedNodes \in { <<a, b>> : a \in NodeShapes("N1"), b \in NodeShapes("N2") }
    /\ parsedEdges \in RawEdgeLists
    /\ transformedNodes = <<>>
    /\ mappedEdges = <<>>
    /\ validEdges = <<>>
    /\ gstatus = "parsed"
    /\ NormIdle
    /\ LayoutIdle
    /\ EditIdle
    /\ AppIdle

\* lines 258-339 in one step: every node through ensureDefaultPins, every raw
\* edge through the resolver, the nulls filtered out.  An error raised on the
\* way is caught and rethrown (lines 341-344): nothing is returned.
GenerateBlueprint ==
    /\ gstatus = "parsed"
    /\ LET enriched == [i \in 1..Len(parsedNodes) |-> ensureDefaultPins(parsedNodes[i])]
       IN  IF \E i \in 1..Len(parsedNodes) : IsError(enriched[i])
           THEN /\ gstatus' = "threw"
                /\ UNCHANGED <<transformedNodes, mappedEdges, validEdges>>
           ELSE LET nodes == [i \in 1..Len(parsedNodes) |-> transformNode(enriched[i])]
                    mapped == [i \in 1..Len(parsedEdges) |->
                                  resolveEdge(parsedEdges[i], i - 1, nodes)]
                IN  /\ transformedNodes' = nodes
                    /\ mappedEdges' = mapped
                    /\ validEdges' = filterNotNull(mapped)
                    /\ gstatus' = "returned"
    /\ UNCHANGED <<parsedNodes, parsedEdges, normVars, layoutVars, editVars, appVars>>

GenNext == GenerateBlueprint

GenSpec == GenInit /\ [][GenNext]_vars

(***************************************************************************)
(* getLayoutedElements, src/unnamed/part_002:4-148.                        *)
(*                                                                         *)
(* ranks and positions are JS objects used as maps: functions defined on   *)
(* the ids assigned so far.  A y coordinate is an average of y             *)
(* coordinates, so it is kept as an exact fraction [num, den].             *)
(***************************************************************************)
RANK_SPACING == 450
nodeHeight == 150
gap == 50

NodeIdsOf(nodes) == {nodes[i].id : i \in 1..Len(nodes)}

\* adjacency[id]: the targets of the edges leaving id, in edge order
\* (an edge is recorded when adjacency[e.source] exists)
RECURSIVE adjacency(_, _)
adjacency(edges, id) ==
    IF edges = <<>> THEN <<>>
    ELSE (IF Head(edges).source = id THEN <<Head(edges).target>> ELSE <<>>)
         \o adjacency(Tail(edges), id)

\* inverseAdjacency[id]: the sources of the edges entering id, in edge order
RECURSIVE inverseAdjacency(_, _)
inverseAdjacency(edges, id) ==
    IF edges = <<>> THEN <<>>
    ELSE (IF Head(edges).target = id THEN <<Head(edges).source>> ELSE <<>>)
         \o inverseAdjacency(Tail(edges), id)

\* nodes.filter(n => inverseAdjacency[n.id].length === 0).map(n => ({id, rank: 0}))
RECURSIVE sourceEntries(_, _)
sourceEntries(nodes, edges) ==
    IF nodes = <<>> THEN <<>>
    ELSE (IF Len(inverseAdjacency(edges, Head(nodes).id)) = 0
          THEN <<[id |-> Head(nodes).id, rank |-> 0]>> ELSE <<>>)
         \o sourceEntries(Tail(nodes), edges)

\* the queue at the head of the while loop: the sources, or the first node when
\* there is none
initialQueue(nodes, edges) ==
    IF sourceEntries(nodes, edges) = <<>> /\ Len(nodes) > 0
    THEN <<[id |-> nodes[1].id, rank |-> 0]>>
    ELSE sourceEntries(nodes, edges)

\* const neighbors = adjacency[id] || []
neighborsOf(nodes, edges, id) ==
    IF id \in NodeIdsOf(nodes) THEN adjacency(edges, id) ELSE <<>>

HasRank(rk, id) == id \in DOMAIN rk

\* a variant of pushes that queues a neighbour at the rank of the visited node
RECURSIVE pushes_SameRank(_, _, _)
pushes_SameRank(neighbors, rk, rank) ==
    IF neighbors = <<>> THEN <<>>
    ELSE (IF ~HasRank(rk, Head(neighbors)) \/ rk[Head(neighbors)] < rank
          THEN <<[id |-> Head(neighbors), rank |-> rank]>> ELSE <<>>)
         \o pushes_SameRank(Tail(neighbors), rk, rank)

\* the entries one visit pushes: each neighbour whose rank is unset or below rank + 1
RECURSIVE pushes(_, _, _)
pushes(neighbors, rk, rank) ==
    IF neighbors = <<>> THEN <<>>
    ELSE (IF ~HasRank(rk, Head(neighbors)) \/ rk[Head(neighbors)] < rank + 1
          THEN <<[id |-> Head(neighbors), rank |-> rank + 1]>> ELSE <<>>)
         \o pushes(Tail(neighbors), rk, rank)

\* a variant of visitRank that keeps the rank of the first visit
visitRank_First(rk, id, rank) ==
    IF ~HasRank(rk, id) THEN SetField(rk, id, rank) ELSE rk

\* ranks after the visit of {id, rank}
visitRank(rk, id, rank) ==
    IF ~HasRank(rk, id) \/ rank > rk[id] THEN SetField(rk, id, rank) ELSE rk

\* const r = ranks[node.id] !== undefined ? ranks[node.id] : 0
finalRank(rk, id) == IF HasRank(rk, id) THEN rk[id] ELSE 0

\* rankMap[r]: the ids of rank r, in node order
RECURSIVE rankMap(_, _, _)
rankMap(nodes, rk, r) ==
    IF nodes = <<>> THEN <<>>
    ELSE (IF finalRank(rk, Head(nodes).id) = r THEN <<Head(nodes).id>> ELSE <<>>)
         \o rankMap(Tail(nodes), rk, r)

maxRankOf(nodes, rk) ==
    LET rs == {finalRank(rk, nodes[i].id) : i \in 1..Len(nodes)} \cup {0}
    IN  CHOOSE m \in rs : \A r \in rs : r <= m

\* exact fractions
RECURSIVE GCD(_, _)
GCD(a, b) == IF b = 0 THEN a ELSE GCD(b, a % b)
Frac(n, d) == LET g == GCD(n, d) IN [num |-> n \div g, den |-> d \div g]
FracInt(n) == [num |-> n, den |-> 1]
FracAdd(a, b) == Frac(a.num * b.den + b.num * a.den, a.den * b.den)
FracDiv(a, k) == Frac(a.num, a.den * k)
FracLess(a, b) == a.num * b.den < b.num * a.den

\* Number.MAX_SAFE_INTEGER as avgY: no positioned parent
NoParentY == [max |-> TRUE]
IsNoParentY(y) == "max" \in DOMAIN y

\* the sum and the count of the y of the parents that have a position
RECURSIVE parentWeight(_, _)
parentWeight(parents, pos) ==
    IF parents = <<>> THEN [weight |-> FracInt(0), parentCount |-> 0]
    ELSE LET rest == parentWeight(Tail(parents), pos)
         IN  IF Head(parents) \in DOMAIN pos
             THEN [weight |-> FracAdd(pos[Head(parents)].y, rest.weight),
                   parentCount |-> rest.parentCount + 1]
             ELSE rest

\* a variant of weighted that reads the incoming position of a node without
\* positioned parents
weighted_FromPosition(id, nodes, edges, pos) ==
    LET w == parentWeight(inverseAdjacency(edges, id), pos)
        n == nodes[CHOOSE i \in 1..Len(nodes) : nodes[i].id = id]
    IN  [ id |-> id,
          avgY |-> IF w.parentCount > 0 THEN FracDiv(w.weight, w.parentCount)
                   ELSE FracAdd(n.position.y, FracInt(nodeHeight)),
          isEvent |-> n.data.nodeType = "event" ]

\* one entry {id, avgY, isEvent} of nodesWithWeight
weighted(id, nodes, edges, pos) ==
    LET w == parentWeight(inverseAdjacency(edges, id), pos)
        n == nodes[CHOOSE i \in 1..Len(nodes) : nodes[i].id = id]
    IN  [ id |-> id,
          avgY |-> IF w.parentCount > 0 THEN FracDiv(w.weight, w.parentCount) ELSE NoParentY,
          isEvent |-> n.data.nodeType = "event" ]

\* a.avgY - b.avgY < 0
avgYLess(a, b) ==
    IF IsNoParentY(a) THEN FALSE
    ELSE IF IsNoParentY(b) THEN TRUE
    ELSE FracLess(a, b)

\* the comparator of the sort returns a negative number: a goes before b
sortsBefore(a, b) ==
    IF a.isEvent /\ ~b.isEvent THEN TRUE
    ELSE IF ~a.isEvent /\ b.isEvent THEN FALSE
    ELSE avgYLess(a.avgY, b.avgY)

\* a variant of insertSorted that is not stable: an item also goes before an
\* item it ties with
RECURSIVE insertSorted_Unstable(_, _)
insertSorted_Unstable(sorted, item) ==
    IF sorted = <<>> THEN <<item>>
    ELSE IF ~sortsBefore(Head(sorted), item) THEN <<item>> \o sorted
         ELSE <<Head(sorted)>> \o insertSorted_Unstable(Tail(sorted), item)

\* Array.prototype.sort is stable: an item goes before the first item it sorts before
RECURSIVE insertSorted(_, _)
insertSorted(sorted, item) ==
    IF sorted = <<>> THEN <<item>>
    ELSE IF sortsBefore(item, Head(sorted)) THEN <<item>> \o sorted
         ELSE <<Head(sorted)>> \o insertSorted(Tail(sorted), item)

RECURSIVE sortWeighted(_, _)
sortWeighted(items, sorted) ==
    IF items = <<>> THEN sorted
    ELSE sortWeighted(Tail(items), insertSorted(sorted, Head(items)))

\* a variant of placeItems that never clamps the barycenter to the cursor
RECURSIVE placeItems_NoClamp(_, _, _, _)
placeItems_NoClamp(items, r, currentY, pos) ==
    IF items = <<>> THEN pos
    ELSE LET item == Head(items)
             idealY == IF ~IsNoParentY(item.avgY) THEN item.avgY ELSE currentY
         IN  placeItems_NoClamp(Tail(items), r,
                                FracAdd(idealY, FracInt(nodeHeight + gap)),
                                SetField(pos, item.id, [x |-> r * RANK_SPACING, y |-> idealY]))

\* the forEach that places one rank's sorted items from currentY on
RECURSIVE placeItems(_, _, _, _)
placeItems(items, r, currentY, pos) ==
    IF items = <<>> THEN pos
    ELSE LET item == Head(items)
             wanted == IF ~IsNoParentY(item.avgY) THEN item.avgY ELSE currentY
             idealY == IF FracLess(wanted, currentY) THEN currentY ELSE wanted
         IN  placeItems(Tail(items), r,
                        FracAdd(idealY, FracInt(nodeHeight + gap)),
                        SetField(pos, item.id, [x |-> r * RANK_SPACING, y |-> idealY]))

\* the for loop over the ranks r..maxRank
RECURSIVE placeRanks(_, _, _, _, _, _)
placeRanks(r, maxRank, nodes, edges, rk, pos) ==
    IF r > maxRank THEN pos
    ELSE LET nodeIds == rankMap(nodes, rk, r)
             nodesWithWeight ==
                 sortWeighted([i \in 1..Len(nodeIds) |-> weighted(nodeIds[i], nodes, edges, pos)],
                              <<>>)
         IN  placeRanks(r + 1, maxRank, nodes, edges, rk,
                        placeItems(nodesWithWeight, r, FracInt(0), pos))

\* the graphs handed to the layout: the first n of the ids A, B, C, ..., each an
\* event or a function, and a set of at most MaxLayoutEdges edges between them
\* (self-loops and cycles included), listed in the order of their end points
LayoutIds == <<"A", "B", "C", "D", "E", "F">>
LayoutKinds == {"event", "input_event", "function"}

RECURSIVE pairList(_, _)
pairList(S, n) ==
    IF S = {} THEN <<>>
    ELSE LET p == CHOOSE q \in S :
                     \A o \in S : (q[1] - 1) * n + q[2] <= (o[1] - 1) * n + o[2]
         IN  <<[source |-> LayoutIds[p[1]], target |-> LayoutIds[p[2]]]>>
             \o pairList(S \ {p}, n)

\* the subsets of P with at most k elements
RECURSIVE SubsetsUpTo(_, _)
SubsetsUpTo(P, k) ==
    IF k = 0 THEN {{}}
    ELSE LET prev == SubsetsUpTo(P, k - 1)
         IN  prev \cup {S \cup {q} : S \in prev, q \in P}

\* an id that no node of the graph has
MissingId == "X"

\* no edge, or one edge with an end that names no node: from MissingId into a
\* node, or from a node to MissingId
DanglingEdges(n) ==
    {<<>>}
    \cup {<<[source |-> MissingId, target |-> LayoutIds[i]]>> : i \in 1..n}
    \cup {<<[source |-> LayoutIds[i], target |-> MissingId]>> : i \in 1..n}

\* the graphs of n nodes with kinds from K, at most MaxLayoutEdges edges between
\* the nodes and, before them, a list of D
LayoutGraphs(n, K, D) ==
    { [ nodes |-> [i \in 1..n |-> [ id |-> LayoutIds[i],
                                    position |-> [x |-> 0, y |-> FracInt(0)],
                                    data |-> [nodeType |-> kinds[i]] ]],
        edges |-> d \o pairList(S, n) ] :
      kinds \in [1..n -> K],
      S \in SubsetsUpTo((1..n) \X (1..n), MaxLayoutEdges),
      d \in D }

\* the state at the head of the while loop (line 41) of a call on graph g
LayoutCalled(g) ==
    /\ lnodes = g.nodes
    /\ ledges = g.edges
    /\ queue = initialQueue(g.nodes, g.edges)
    /\ ranks = <<>>
    /\ positions = <<>>
    /\ lpc = "relax"
    /\ lfirst = <<>>
    /\ lagain = FALSE
    /\ NormIdle
    /\ GenIdle
    /\ EditIdle
    /\ AppIdle

\* a call on a graph whose edges all join nodes of the graph, as the resolver
\* and the editor hand it over
LayoutInit ==
    \E n \in 0..MaxLayoutNodes : \E g \in LayoutGraphs(n, LayoutKinds, {<<>>}) :
        LayoutCalled(g)

\* a call on any graph, an edge with a missing end included
RelayoutInit ==
    \E n \in 0..MaxLayoutNodes :
        \E g \in LayoutGraphs(n, {"event", "function"}, DanglingEdges(n)) :
            LayoutCalled(g)

\* one iteration of the while loop, lines 41-57.  The loop sets no bound of its
\* own; the model follows it while the visited rank is at most MaxRank.
RelaxStep ==
    /\ lpc = "relax"
    /\ queue # <<>>
    /\ Head(queue).rank <= MaxRank
    /\ LET id == Head(queue).id
           rank == Head(queue).rank
           rk == visitRank(ranks, id, rank)
       IN  /\ ranks' = rk
           /\ queue' = Tail(queue) \o pushes(neighborsOf(lnodes, ledges, id), rk, rank)
    /\ UNCHANGED <<lnodes, ledges, positions, lpc, lfirst, lagain, normVars, genVars, editVars, appVars>>

\* the loop has ended; lines 59-147: group by rank, order, place, return
PlaceNodes ==
    /\ lpc = "relax"
    /\ queue = <<>>
    /\ positions' = placeRanks(0, maxRankOf(lnodes, ranks), lnodes, ledges, ranks, <<>>)
    /\ lnodes' = [i \in 1..Len(lnodes) |->
                     [lnodes[i] EXCEPT !.position =
                         IF lnodes[i].id \in DOMAIN positions'
                         THEN positions'[lnodes[i].id]
                         ELSE [x |-> 0, y |-> FracInt(0)]]]
    /\ lpc' = "done"
    /\ UNCHANGED <<ledges, queue, ranks, lfirst, lagain, normVars, genVars, editVars, appVars>>

\* handleAutoLayout: the layout is called again on the nodes and edges it
\* returned, the nodes now carrying the positions of the first call
LayoutAgain ==
    /\ lpc = "done"
    /\ ~lagain
    /\ lagain' = TRUE
    /\ lfirst' = positions
    /\ queue' = initialQueue(lnodes, ledges)
    /\ ranks' = <<>>
    /\ positions' = <<>>
    /\ lpc' = "relax"
    /\ UNCHANGED <<lnodes, ledges, normVars, genVars, editVars, appVars>>

LayoutNext == RelaxStep \/ PlaceNodes

RelayoutNext == RelaxStep \/ PlaceNodes \/ LayoutAgain

LayoutSpec == LayoutInit /\ [][LayoutNext]_vars

RelayoutSpec == RelayoutInit /\ [][RelayoutNext]_vars

\* no edge, or one edge between two nodes of the graph
JoiningEdges(n) ==
    {<<>>} \cup {<<[source |-> LayoutIds[i], target |-> LayoutIds[j]]>> : i \in 1..n, j \in 1..n}

\* a call on a graph of function nodes with up to MaxLayoutEdges + 1 edges, all
\* between nodes of the graph; an edge may be listed twice
LayeringInit ==
    \E n \in 0..MaxLayoutNodes :
        \E g \in LayoutGraphs(n, {"function"}, JoiningEdges(n)) :
            LayoutCalled(g)

LayeringSpec == LayeringInit /\ [][LayoutNext]_vars

(***************************************************************************)
(* The editor: the edges state of App and the handlers that change it.     *)
(* strokeWidth is kept in tenths (2.5 is 25).                              *)
(***************************************************************************)
UE_COLORS ==
    [ Exec |-> "#FFFFFF", Boolean |-> "#8C0000", BooleanConnected |-> "#920101",
      Integer |-> "#00E5CA", Float |-> "#35D039", String |-> "#E900EB",
      Vector |-> "#FDC31F", Rotator |-> "#9999FF", Object |-> "#00A8F6",
      Class |-> "#5800A5", Struct |-> "#005090", Byte |-> "#006575",
      Name |-> "#C671FF", Text |-> "#E27294", Delegate |-> "#FF3838",
      Default |-> "#9ca3af" ]

\* Array.prototype.find(p => p.id === id): the first such pin, or undefined (Null)
findPin(pins, id) ==
    IF \E i \in 1..Len(pins) : Field(pins[i], "id") = id
    THEN pins[CHOOSE i \in 1..Len(pins) :
                 /\ Field(pins[i], "id") = id
                 /\ \A j \in 1..(i - 1) : Field(pins[j], "id") # id]
    ELSE Null

\* the switch on sourcePin.type: stroke colour and width of the new edge
edgeStyle(sourcePin) ==
    IF IsNull(sourcePin) THEN [stroke |-> UE_COLORS.Default, strokeWidth |-> 20]
    ELSE CASE sourcePin.type = "exec" -> [stroke |-> UE_COLORS.Exec, strokeWidth |-> 25]
           [] sourcePin.type = "boolean" -> [stroke |-> UE_COLORS.Boolean, strokeWidth |-> 20]
           [] sourcePin.type = "integer" -> [stroke |-> UE_COLORS.Integer, strokeWidth |-> 20]
           [] sourcePin.type = "float" -> [stroke |-> UE_COLORS.Float, strokeWidth |-> 20]
           [] sourcePin.type = "string" -> [stroke |-> UE_COLORS.String, strokeWidth |-> 20]
           [] sourcePin.type = "vector" -> [stroke |-> UE_COLORS.Vector, strokeWidth |-> 20]
           [] sourcePin.type = "rotator" -> [stroke |-> UE_COLORS.Rotator, strokeWidth |-> 20]
           [] sourcePin.type = "object" -> [stroke |-> UE_COLORS.Object, strokeWidth |-> 20]
           [] sourcePin.type = "class" -> [stroke |-> UE_COLORS.Class, strokeWidth |-> 20]
           [] sourcePin.type = "struct" -> [stroke |-> UE_COLORS.Struct, strokeWidth |-> 20]
           [] sourcePin.type = "name" -> [stroke |-> UE_COLORS.Name, strokeWidth |-> 20]
           [] sourcePin.type = "text" -> [stroke |-> UE_COLORS.Text, strokeWidth |-> 20]
           [] OTHER -> [stroke |-> UE_COLORS.Default, strokeWidth |-> 20]

\* variants of the two filters that remove only the first edge with the handle
RECURSIVE dropTargetHandle_FirstOnly(_, _)
dropTargetHandle_FirstOnly(edges, handle) ==
    IF edges = <<>> THEN <<>>
    ELSE IF Head(edges).targetHandle = handle THEN Tail(edges)
         ELSE <<Head(edges)>> \o dropTargetHandle_FirstOnly(Tail(edges), handle)

RECURSIVE dropSourceHandle_FirstOnly(_, _)
dropSourceHandle_FirstOnly(edges, handle) ==
    IF edges = <<>> THEN <<>>
    ELSE IF Head(edges).sourceHandle = handle THEN Tail(edges)
         ELSE <<Head(edges)>> \o dropSourceHandle_FirstOnly(Tail(edges), handle)

\* newEdges.filter(e => e.targetHandle !== handle)
RECURSIVE dropTargetHandle(_, _)
dropTargetHandle(edges, handle) ==
    IF edges = <<>> THEN <<>>
    ELSE (IF Head(edges).targetHandle # handle THEN <<Head(edges)>> ELSE <<>>)
         \o dropTargetHandle(Tail(edges), handle)

\* newEdges.filter(e => e.sourceHandle !== handle)
RECURSIVE dropSourceHandle(_, _)
dropSourceHandle(edges, handle) ==
    IF edges = <<>> THEN <<>>
    ELSE (IF Head(edges).sourceHandle # handle THEN <<Head(edges)>> ELSE <<>>)
         \o dropSourceHandle(Tail(edges), handle)

\* addEdge of @xyflow/react: an edge without id gets the id
\* xy-edge__{source}{sourceHandle}-{target}{targetHandle}; the list is returned
\* as it is when it holds an edge with the same ends and handles, and with the
\* edge appended otherwise
getEdgeId(c) ==
    "xy-edge__" \o c.source \o c.sourceHandle \o "-" \o c.target \o c.targetHandle

connectionExists(edge, edges) ==
    \E i \in 1..Len(edges) :
        /\ edges[i].source = edge.source
        /\ edges[i].target = edge.target
        /\ edges[i].sourceHandle = edge.sourceHandle
        /\ edges[i].targetHandle = edge.targetHandle

addEdge(edgeParams, edges) ==
    LET edge == [edgeParams EXCEPT !.id = getEdgeId(edgeParams)]
    IN  IF connectionExists(edge, edges) THEN edges ELSE Append(edges, edge)

\* the updater onConnect hands to setEdges, lines 177-223
onConnect(params, nodes, prevEdges) ==
    LET targetNode == findNode(nodes, params.target)
        sourceNode == findNode(nodes, params.source)
        found == ~IsNull(targetNode) /\ ~IsNull(sourceNode)
        targetPin == IF found THEN findPin(targetNode.data.inputs, params.targetHandle)
                     ELSE Null
        sourcePin == IF found THEN findPin(sourceNode.data.outputs, params.sourceHandle)
                     ELSE Null
        afterTarget == IF found /\ ~IsNull(targetPin) /\ targetPin.type # "exec"
                       THEN dropTargetHandle(prevEdges, params.targetHandle)
                       ELSE prevEdges
        newEdges == IF found /\ ~IsNull(sourcePin) /\ sourcePin.type = "exec"
                    THEN dropSourceHandle(afterTarget, params.sourceHandle)
                    ELSE afterTarget
        newEdge == [ id |-> UNDEFINED,
                     source |-> params.source,
                     target |-> params.target,
                     sourceHandle |-> params.sourceHandle,
                     targetHandle |-> params.targetHandle,
                     type |-> "default",
                     animated |-> FALSE,
                     style |-> edgeStyle(sourcePin) ]
    IN  addEdge(newEdge, newEdges)

\* the nodes of the editor: two function nodes whose pins have the same ids,
\* an Exec and a data pin on each side
EditorNode(id) ==
    [ id |-> id,
      type |-> "customBlueprintNode",
      data |-> [ label |-> "Jump",
                 nodeType |-> "function",
                 inputs |-> <<Pin("exec_in", "Exec", "exec"), Pin("value", "Value", "boolean")>>,
                 outputs |-> <<Pin("exec_out", "Then", "exec"), Pin("result", "Result", "boolean")>> ] ]

EditorNodes == <<EditorNode("N1"), EditorNode("N2")>>

\* the connections the canvas can report: from a source handle (an output pin)
\* of a node to a target handle (an input pin) of a node
Connections(nodes) ==
    UNION { { [source |-> nodes[ij[1]].id, sourceHandle |-> nodes[ij[1]].data.outputs[p].id,
               target |-> nodes[ij[2]].id, targetHandle |-> nodes[ij[2]].data.inputs[q].id] :
                p \in 1..Len(nodes[ij[1]].data.outputs),
                q \in 1..Len(nodes[ij[2]].data.inputs) } :
            ij \in (1..Len(nodes)) \X (1..Len(nodes)) }

\* an edge as handleGenerate stores it: resolved handles, an id, the colour of
\* its source pin (lines 369-396)
generatedEdge(c, k, nodes) ==
    [ id |-> "g" \o ToString(k),
      source |-> c.source,
      target |-> c.target,
      sourceHandle |-> c.sourceHandle,
      targetHandle |-> c.targetHandle,
      type |-> "default",
      animated |-> FALSE,
      style |-> edgeStyle(findPin(findNode(nodes, c.source).data.outputs, c.sourceHandle)) ]

\* the editor after a generation: the nodes and up to MaxEditorEdges edges
EditInit ==
    /\ enodes = EditorNodes
    /\ \E n \in 0..MaxEditorEdges : \E cs \in [1..n -> Connections(EditorNodes)] :
          eedges = [k \in 1..n |-> generatedEdge(cs[k], k, EditorNodes)]
    /\ eprev = <<>>
    /\ elast = [op |-> "none"]
    /\ edgeReconnectSuccessful = FALSE
    /\ edrag = NoDrag
    /\ NormIdle
    /\ GenIdle
    /\ LayoutIdle
    /\ AppIdle

\* the canvas reports a connection: onConnect, lines 175-226
OnConnect ==
    /\ Len(eedges) < MaxEditorEdges
    /\ \E params \in Connections(enodes) :
          /\ eedges' = onConnect(params, enodes, eedges)
          /\ elast' = [op |-> "connect", params |-> params]
    /\ eprev' = eedges
    /\ UNCHANGED <<enodes, edgeReconnectSuccessful, edrag, normVars, genVars, layoutVars, appVars>>

EditNext == OnConnect

EditSpec == EditInit /\ [][EditNext]_vars

(***************************************************************************)
(* The editing session: reconnect gestures, alt-clicks on edges and pins.  *)
(***************************************************************************)
\* eds.filter(e => e.id !== id)
RECURSIVE dropEdgeId(_, _)
dropEdgeId(eds, id) ==
    IF eds = <<>> THEN <<>>
    ELSE (IF Head(eds).id # id THEN <<Head(eds)>> ELSE <<>>)
         \o dropEdgeId(Tail(eds), id)

\* reconnectEdge of @xyflow/react: the list as it is when it holds no edge with
\* the old edge's id; otherwise the list without the edges of that id, and after
\* it the old edge with the new ends and the id of the new connection
reconnectEdge(oldEdge, newConnection, els) ==
    IF \A i \in 1..Len(els) : els[i].id # oldEdge.id THEN els
    ELSE Append(dropEdgeId(els, oldEdge.id),
                [oldEdge EXCEPT !.id = getEdgeId(newConnection),
                                !.source = newConnection.source,
                                !.target = newConnection.target,
                                !.sourceHandle = newConnection.sourceHandle,
                                !.targetHandle = newConnection.targetHandle])

\* onReconnectEnd without its test of the flag
onReconnectEnd_Never(successful, edge, eds) == eds

\* the updater of onReconnectEnd, lines 242-244: the edges are left alone when
\* the flag is set
onReconnectEnd(successful, edge, eds) ==
    IF ~successful THEN dropEdgeId(eds, edge.id) ELSE eds

\* onEdgeClick, lines 250-259
onEdgeClick(altKey, edge, eds) ==
    IF altKey THEN dropEdgeId(eds, edge.id) ELSE eds

\* edges.filter(edge => edge.sourceHandle !== handleId && edge.targetHandle !== handleId)
RECURSIVE dropHandle(_, _)
dropHandle(edges, handleId) ==
    IF edges = <<>> THEN <<>>
    ELSE (IF Head(edges).sourceHandle # handleId /\ Head(edges).targetHandle # handleId
          THEN <<Head(edges)>> ELSE <<>>)
         \o dropHandle(Tail(edges), handleId)

\* handlePinClick of CustomBlueprintNode
handlePinClick(altKey, handleId, edges) ==
    IF altKey THEN dropHandle(edges, handleId) ELSE edges

\* the connections a reconnect gesture can report for an edge: one end of the
\* edge stays, the other is dropped on a handle of the same side
Reconnections(edge, nodes) ==
    {c \in Connections(nodes) :
        \/ c.source = edge.source /\ c.sourceHandle = edge.sourceHandle
        \/ c.target = edge.target /\ c.targetHandle = edge.targetHandle}

\* the pins of the nodes: node id, handle id and side
PinsOf(nodes) ==
    UNION { {[node |-> nodes[i].id, handle |-> nodes[i].data.inputs[p].id, side |-> "input"] :
                p \in 1..Len(nodes[i].data.inputs)}
            \cup {[node |-> nodes[i].id, handle |-> nodes[i].data.outputs[p].id, side |-> "output"] :
                p \in 1..Len(nodes[i].data.outputs)} : i \in 1..Len(nodes) }

\* the editor after a generation that left at most MaxSessionEdges edges
SessionInit ==
    /\ enodes = EditorNodes
    /\ \E n \in 0..MaxSessionEdges : \E cs \in [1..n -> Connections(EditorNodes)] :
          eedges = [k \in 1..n |-> generatedEdge(cs[k], k, EditorNodes)]
    /\ eprev = <<>>
    /\ elast = [op |-> "none"]
    /\ edgeReconnectSuccessful = FALSE
    /\ edrag = NoDrag
    /\ NormIdle
    /\ GenIdle
    /\ LayoutIdle
    /\ AppIdle

\* onConnect between gestures, while the canvas holds at most MaxSessionEdges edges
SessionConnect ==
    /\ edrag = NoDrag
    /\ Len(eedges) <= MaxSessionEdges
    /\ \E params \in Connections(enodes) :
          /\ eedges' = onConnect(params, enodes, eedges)
          /\ elast' = [op |-> "connect", params |-> params]
    /\ eprev' = eedges
    /\ UNCHANGED <<enodes, edgeReconnectSuccessful, edrag, normVars, genVars, layoutVars, appVars>>

\* the user grabs an end of an edge: onReconnectStart, lines 228-230
OnReconnectStart ==
    /\ edrag = NoDrag
    /\ \E k \in 1..Len(eedges) :
          /\ edrag' = [phase |-> "started", edge |-> eedges[k]]
          /\ elast' = [op |-> "reconnectStart", edge |-> eedges[k]]
    /\ edgeReconnectSuccessful' = FALSE
    /\ eprev' = eedges
    /\ UNCHANGED <<enodes, eedges, normVars, genVars, layoutVars, appVars>>

\* the end is dropped on a handle: onReconnect, lines 232-238
OnReconnect ==
    /\ edrag.phase = "started"
    /\ \E newConnection \in Reconnections(edrag.edge, enodes) :
          /\ eedges' = reconnectEdge(edrag.edge, newConnection, eedges)
          /\ elast' = [op |-> "reconnect", edge |-> edrag.edge, params |-> newConnection]
    /\ edgeReconnectSuccessful' = TRUE
    /\ edrag' = [edrag EXCEPT !.phase = "reconnected"]
    /\ eprev' = eedges
    /\ UNCHANGED <<enodes, normVars, genVars, layoutVars, appVars>>

\* the gesture ends, on a handle or not: onReconnectEnd, lines 240-248
OnReconnectEnd ==
    /\ edrag.phase \in {"started", "reconnected"}
    /\ eedges' = onReconnectEnd(edgeReconnectSuccessful, edrag.edge, eedges)
    /\ edgeReconnectSuccessful' = FALSE
    /\ elast' = [op |-> "reconnectEnd", edge |-> edrag.edge,
                 reconnected |-> (edrag.phase = "reconnected")]
    /\ edrag' = NoDrag
    /\ eprev' = eedges
    /\ UNCHANGED <<enodes, normVars, genVars, layoutVars, appVars>>

\* a click on an edge, with or without the alt key: onEdgeClick
OnEdgeClick ==
    /\ edrag = NoDrag
    /\ \E k \in 1..Len(eedges) : \E altKey \in BOOLEAN :
          /\ eedges' = onEdgeClick(altKey, eedges[k], eedges)
          /\ elast' = [op |-> "edgeClick", altKey |-> altKey, edge |-> eedges[k]]
    /\ eprev' = eedges
    /\ UNCHANGED <<enodes, edgeReconnectSuccessful, edrag, normVars, genVars, layoutVars, appVars>>

\* a mouse-down on a pin of a node, with or without the alt key: handlePinClick
OnPinClick ==
    /\ edrag = NoDrag
    /\ \E pin \in PinsOf(enodes) : \E altKey \in BOOLEAN :
          /\ eedges' = handlePinClick(altKey, pin.handle, eedges)
          /\ elast' = [op |-> "pinClick", altKey |-> altKey, pin |-> pin]
    /\ eprev' = eedges
    /\ UNCHANGED <<enodes, edgeReconnectSuccessful, edrag, normVars, genVars, layoutVars, appVars>>

ReconnectNext == OnReconnectStart \/ OnReconnect \/ OnReconnectEnd

ReconnectSpec == SessionInit /\ [][ReconnectNext]_vars

SessionNext ==
    \/ SessionConnect
    \/ OnReconnectStart
    \/ OnReconnect
    \/ OnReconnectEnd
    \/ OnEdgeClick
    \/ OnPinClick

SessionSpec == SessionInit /\ [][SessionNext]_vars

(***************************************************************************)
(* handleGenerate: the generate form, the pending call, the layout of the  *)
(* result, the error and loading states.                                   *)
(***************************************************************************)
\* String.prototype.trim, for blanks
RECURSIVE trimStart(_)
trimStart(s) ==
    IF Len(s) > 0 /\ SubSeq(s, 1, 1) = " " THEN trimStart(SubSeq(s, 2, Len(s))) ELSE s
RECURSIVE trimEnd(_)
trimEnd(s) ==
    IF Len(s) > 0 /\ SubSeq(s, Len(s), Len(s)) = " "
    THEN trimEnd(SubSeq(s, 1, Len(s) - 1)) ELSE s
trim(s) == trimEnd(trimStart(s))

\* what the user can type into the textarea
Prompts == {"", "  ", "a door"}

\* a submit button that stays enabled while a generation is loading
submitEnabled_IgnoreLoading(isLoading, text) == trim(text) # ""

\* the submit button of the form: disabled={loading || !prompt.trim()}
submitEnabled(isLoading, text) == ~(isLoading \/ trim(text) = "")

\* the messages generateBlueprint rejects with: no API key, a transport error,
\* a response that does not parse
ErrorMessages == {"MISSING_API_KEY", "fetch failed", "Unexpected token < in JSON"}

\* the catch block: errorMessage.includes("MISSING_API_KEY") selects the message
errorFor(errorMessage) ==
    IF errorMessage = "MISSING_API_KEY"
    THEN "Please provide a Gemini API Key in Settings."
    ELSE "Failed to generate blueprint. Please try again."

\* a node of a generated blueprint, as generateBlueprint returns it
ResultNode(id) ==
    [ id |-> id,
      type |-> "customBlueprintNode",
      position |-> [x |-> 0, y |-> FracInt(0)],
      data |-> EditorNode(id).data ]

\* the generated blueprints: up to MaxResultNodes nodes and up to MaxEdges
\* Exec edges between them
RECURSIVE resultEdges(_, _, _)
resultEdges(S, n, k) ==
    IF S = {} THEN <<>>
    ELSE LET p == CHOOSE q \in S :
                     \A o \in S : (q[1] - 1) * n + q[2] <= (o[1] - 1) * n + o[2]
         IN  <<[ id |-> "e_" \o LayoutIds[p[1]] \o "_" \o LayoutIds[p[2]] \o "_" \o ToString(k),
                 source |-> LayoutIds[p[1]],
                 target |-> LayoutIds[p[2]],
                 sourceHandle |-> "exec_out",
                 targetHandle |-> "exec_in",
                 type |-> "default",
                 animated |-> FALSE ]>>
             \o resultEdges(S \ {p}, n, k + 1)

ResultGraphs(n) ==
    { [ nodes |-> [i \in 1..n |-> ResultNode(LayoutIds[i])],
        edges |-> resultEdges(S, n, 0) ] :
      S \in SubsetsUpTo((1..n) \X (1..n), MaxEdges) }

\* coloredEdges, lines 369-396
coloredEdges(layoutedEdges, layoutedNodes) ==
    [k \in 1..Len(layoutedEdges) |->
        LET edge == layoutedEdges[k]
            sourceNode == findNode(layoutedNodes, edge.source)
            sourcePin == IF IsNull(sourceNode) THEN Null
                         ELSE findPin(sourceNode.data.outputs, edge.sourceHandle)
        IN  [ id |-> edge.id,
              source |-> edge.source,
              target |-> edge.target,
              sourceHandle |-> edge.sourceHandle,
              targetHandle |-> edge.targetHandle,
              type |-> "default",
              style |-> edgeStyle(sourcePin),
              animated |-> FALSE ]]

\* the App as it is mounted: an empty canvas, an empty or a typed prompt
HandleInit ==
    /\ prompt \in Prompts
    /\ loading = FALSE
    /\ error = Null
    /\ pending = 0
    /\ NormIdle
    /\ GenIdle
    /\ LayoutIdle
    /\ EditIdle

\* the user edits the prompt; the textarea is disabled while loading (line 682)
SetPrompt ==
    /\ lpc = "idle"
    /\ ~loading
    /\ \E text \in Prompts \ {prompt} : prompt' = text
    /\ UNCHANGED <<loading, error, pending, normVars, genVars, layoutVars, editVars>>

\* the form is submitted: handleGenerate up to its await, lines 316-339
Submit ==
    /\ lpc = "idle"
    /\ submitEnabled(loading, prompt)
    /\ trim(prompt) # ""
    /\ pending < MaxPending
    /\ loading' = TRUE
    /\ error' = Null
    /\ pending' = pending + 1
    /\ UNCHANGED <<prompt, normVars, genVars, layoutVars, editVars>>

\* a pending call rejects: the catch and finally blocks, lines 406-423
Reject ==
    /\ lpc = "idle"
    /\ pending > 0
    /\ \E errorMessage \in ErrorMessages : error' = [message |-> errorFor(errorMessage)]
    /\ loading' = FALSE
    /\ pending' = pending - 1
    /\ UNCHANGED <<prompt, normVars, genVars, layoutVars, editVars>>

\* a pending call resolves: handleGenerate goes on to getLayoutedElements,
\* lines 339-367
Resolve ==
    /\ lpc = "idle"
    /\ pending > 0
    /\ pending' = pending - 1
    /\ \E n \in 0..MaxResultNodes : \E g \in ResultGraphs(n) :
          /\ lnodes' = g.nodes
          /\ ledges' = g.edges
          /\ queue' = initialQueue(g.nodes, g.edges)
    /\ ranks' = <<>>
    /\ positions' = <<>>
    /\ lpc' = "relax"
    /\ UNCHANGED <<lfirst, lagain, prompt, loading, error, normVars, genVars, editVars>>

\* the layout has returned: the edges are coloured, nodes and edges are stored
\* and the finally block runs, lines 369-423
Finish ==
    /\ lpc = "done"
    /\ enodes' = lnodes
    /\ eedges' = coloredEdges(ledges, lnodes)
    /\ loading' = FALSE
    /\ lnodes' = <<>>
    /\ ledges' = <<>>
    /\ ranks' = <<>>
    /\ positions' = <<>>
    /\ lpc' = "idle"
    /\ UNCHANGED <<queue, lfirst, lagain, eprev, elast, edgeReconnectSuccessful, edrag,
                   prompt, error, pending, normVars, genVars>>

HandleNext ==
    \/ SetPrompt
    \/ Submit
    \/ Reject
    \/ Resolve
    \/ RelaxStep
    \/ PlaceNodes
    \/ Finish

HandleSpec == HandleInit /\ [][HandleNext]_vars

\* the same with the steps that do not wait for the user taken eventually: a
\* pending call settles, and the code after the await runs on.  A run that
\* halts inside the relaxation loop at MaxRank stands for the loop running on:
\* a rank above the number of nodes is only queued on a lap round a cycle, and
\* every lap queues the next one.
HandleLiveSpec ==
    /\ HandleSpec
    /\ WF_vars(Reject \/ Resolve)
    /\ WF_vars(RelaxStep)
    /\ WF_vars(PlaceNodes)
    /\ WF_vars(Finish)

(***************************************************************************)
(* Properties of the normalizer.                                           *)
(***************************************************************************)
InputsOf(raw) == IF "inputs" \in DOMAIN raw THEN raw.inputs ELSE <<>>
OutputsOf(raw) == IF "outputs" \in DOMAIN raw THEN raw.outputs ELSE <<>>
kindOf(raw) == Field(raw, "nodeType")

ExecPins(list) == {i \in 1..Len(list) : Field(list[i], "type") = "exec"}
ExecCount(list) == Cardinality(ExecPins(list))
NamedPins(list, name) == {i \in 1..Len(list) : Field(list[i], "name") = name}
ExecNames(list) == {Field(list[i], "name") : i \in ExecPins(list)}

\* a raw node with every field present, a string label and complete pins
IsCompletePin(p) == DOMAIN p = {"id", "name", "type"}
IsWellFormed(raw) ==
    /\ DOMAIN raw = {"id", "label", "nodeType", "inputs", "outputs"}
    /\ raw.label # NotAString
    /\ \A i \in 1..Len(raw.inputs) : IsCompletePin(raw.inputs[i])
    /\ \A i \in 1..Len(raw.outputs) : IsCompletePin(raw.outputs[i])

\* kinds that have a pin contract of their own
ContractKinds == {"event", "input_event", "variable_get", "variable_set"}

\* C5: normalization is idempotent: a second application of ensureDefaultPins
\* leaves the inputs and the outputs of the first application's result as they are.
C5_Idempotent ==
    napplied >= 2 => (node.inputs = nprev.inputs /\ node.outputs = nprev.outputs)

\* a Sequence node that arrived with one output was repaired to three, and
\* normalized a second time
C5_Witness ==
    /\ napplied = 2
    /\ labelOf(rawNode) = "Sequence"
    /\ Len(OutputsOf(rawNode)) = 1
    /\ Len(nprev.outputs) = 3

IsBranch(raw) == labelOf(raw) \in {"Branch", "If"}

BranchEmptyCase ==
    (InputsOf(rawNode) = <<>> /\ OutputsOf(rawNode) = <<>>) =>
        /\ node.inputs = <<Pin("N1_Exec", "Exec", "exec"),
                           Pin("N1_Condition", "Condition", "boolean")>>
        /\ node.outputs = <<Pin("N1_True", "True", "exec"),
                            Pin("N1_False", "False", "exec")>>

\* C6 as claimed: a normalized Branch/If node has exactly one Exec input and
\* exactly two Exec outputs, named "True" and "False", whatever pins it arrived
\* with; from empty pin lists the result is exactly [Exec, Condition] / [True, False].
C6_BranchExactPins ==
    (napplied >= 1 /\ IsWellFormed(rawNode) /\ IsBranch(rawNode)
                   /\ kindOf(rawNode) \notin ContractKinds) =>
        /\ ExecCount(node.inputs) = 1
        /\ ExecCount(node.outputs) = 2
        /\ ExecNames(node.outputs) = {"True", "False"}
        /\ BranchEmptyCase

\* C6 as amended: a normalized Branch/If node has at least one Exec input
\* (exactly one when it arrived with at most one) and outputs named "True" and
\* "False"; when it arrived with no Exec output and no output named "True" or
\* "False" it has exactly two Exec outputs, named "True" and "False"; from empty
\* pin lists the result is exactly [Exec, Condition] / [True, False].
C6_BranchRepaired ==
    (napplied >= 1 /\ IsBranch(rawNode)) =>
        /\ ExecCount(node.inputs) >= 1
        /\ ExecCount(InputsOf(rawNode)) <= 1 => ExecCount(node.inputs) = 1
        /\ NamedPins(node.outputs, "True") # {}
        /\ NamedPins(node.outputs, "False") # {}
        /\ ( /\ ExecPins(OutputsOf(rawNode)) = {}
             /\ NamedPins(OutputsOf(rawNode), "True") = {}
             /\ NamedPins(OutputsOf(rawNode), "False") = {} ) =>
                /\ ExecCount(node.outputs) = 2
                /\ ExecNames(node.outputs) = {"True", "False"}
        /\ BranchEmptyCase

\* a Branch node that arrived without pins has been normalized
C6_Witness ==
    /\ napplied = 1
    /\ labelOf(rawNode) = "Branch"
    /\ InputsOf(rawNode) = <<>> /\ OutputsOf(rawNode) = <<>>
    /\ Len(node.inputs) = 2 /\ Len(node.outputs) = 2

\* C7: a normalized Sequence node has at least one Exec input and at least two
\* Exec outputs, among them one named "Then 0" and one named "Then 1", whatever
\* outputs it arrived with.
C7_SequencePins ==
    (napplied >= 1 /\ IsWellFormed(rawNode) /\ labelOf(rawNode) = "Sequence"
                   /\ kindOf(rawNode) \notin ContractKinds) =>
        /\ ExecCount(node.inputs) >= 1
        /\ ExecCount(node.outputs) >= 2
        /\ "Then 0" \in ExecNames(node.outputs)
        /\ "Then 1" \in ExecNames(node.outputs)

\* the pin contract of a kind, applied to the raw node
kindContract(raw) ==
    CASE kindOf(raw) = "event"        -> repairEvent(withPinLists(raw))
      [] kindOf(raw) = "variable_get" -> repairVariableGet(withPinLists(raw))
      [] kindOf(raw) = "variable_set" -> repairExecBoth(withPinLists(raw))

\* C8: classification looks at the kind first: a node of kind Event,
\* VariableGet or VariableSet gets exactly that kind's repair, whatever its label.
C8_KindFirst ==
    (napplied = 1 /\ IsWellFormed(rawNode)
                  /\ kindOf(rawNode) \in {"event", "variable_get", "variable_set"}) =>
        node = kindContract(rawNode)

\* labels that no label rule of another category matches
NoOtherCategoryLabel(raw) ==
    /\ labelOf(raw) \notin {"Branch", "If", "Sequence", "For Loop", "ForEach Loop"}
    /\ ~startsWith(labelOf(raw), "Set ")

\* C9: a node of kind Event or InputEvent gets one Exec output prepended when
\* it has none, and its inputs stay as they arrived.
C9_EventRepair ==
    (napplied = 1 /\ IsWellFormed(rawNode)
                  /\ kindOf(rawNode) \in {"event", "input_event"}
                  /\ NoOtherCategoryLabel(rawNode)) =>
        /\ node.inputs = InputsOf(rawNode)
        /\ node.outputs =
              IF ExecCount(OutputsOf(rawNode)) = 0
              THEN <<Pin("N1_Output", "Output", "exec")>> \o OutputsOf(rawNode)
              ELSE OutputsOf(rawNode)

\* C10: normalization is total: ensureDefaultPins never raises an error.
C10_NeverRaises == ~nthrew

(***************************************************************************)
(* Properties of the edge resolver.                                        *)
(***************************************************************************)
\* the normalized node an id names, and whether it names one
NamesNode(id) == \E i \in 1..Len(transformedNodes) : transformedNodes[i].id = id
NodeNamed(id) == transformedNodes[CHOOSE i \in 1..Len(transformedNodes) :
                                     transformedNodes[i].id = id]
PinIds(pins) == {Field(pins[i], "id") : i \in 1..Len(pins)}

\* C2: every edge of the resolver's output names, as sourceHandle, a pin of its
\* source node's outputs and, as targetHandle, a pin of its target node's inputs.
C2_HandlesResolve ==
    gstatus = "returned" =>
        \A k \in 1..Len(validEdges) :
            /\ validEdges[k].sourceHandle \in PinIds(NodeNamed(validEdges[k].source).data.outputs)
            /\ validEdges[k].targetHandle \in PinIds(NodeNamed(validEdges[k].target).data.inputs)

\* C3: a raw edge whose source node has no output pin, or whose target node has
\* no input pin, yields no edge, whatever handles it declares.
C3_PinlessDropped ==
    gstatus = "returned" =>
        \A i \in 1..Len(parsedEdges) :
            ( /\ NamesNode(parsedEdges[i].source)
              /\ NamesNode(parsedEdges[i].target)
              /\ \/ NodeNamed(parsedEdges[i].source).data.outputs = <<>>
                 \/ NodeNamed(parsedEdges[i].target).data.inputs = <<>> )
            => IsNull(mappedEdges[i])

\* the raw edges whose source and target both name a node
Anchored == {i \in 1..Len(parsedEdges) :
                NamesNode(parsedEdges[i].source) /\ NamesNode(parsedEdges[i].target)}

\* C4: a raw edge whose source or target names no node yields no edge, and the
\* other raw edges yield at most one edge each: the output holds only edges
\* between existing nodes, no more of them than there are such raw edges.
C4_DanglingDropped ==
    gstatus = "returned" =>
        /\ Len(mappedEdges) = Len(parsedEdges)
        /\ \A i \in 1..Len(parsedEdges) : i \notin Anchored => IsNull(mappedEdges[i])
        /\ \A k \in 1..Len(validEdges) :
              NamesNode(validEdges[k].source) /\ NamesNode(validEdges[k].target)
        /\ Len(validEdges) <= Cardinality(Anchored)

\* a response with a dangling raw edge and a sound one has been resolved: the
\* first is gone and the second survives
C4_Witness ==
    /\ gstatus = "returned"
    /\ Len(parsedEdges) = 2
    /\ parsedEdges[1].source = "N9"
    /\ parsedEdges[2].source = "N1" /\ parsedEdges[2].target = "N2"
    /\ Len(validEdges) = 1
    /\ validEdges[1].source = "N1"

\* the handle the resolution policy names for a declared handle, on a node
\* with at least one pin on that side: the declared handle when it is the id
\* of a pin; else, when it is absent or its lower-cased text contains one of
\* the tokens, the first Exec pin if there is one; else the first pin
PolicyHandle(declared, pins, tokens) ==
    LET execs == {k \in 1..Len(pins) : Field(pins[k], "type") = "exec"}
        execLike == \/ declared = UNDEFINED
                    \/ \E t \in tokens : includes(toLowerCase(declared), t)
    IN  IF declared # UNDEFINED /\ declared \in PinIds(pins) THEN declared
        ELSE IF execLike /\ execs # {}
             THEN Field(pins[CHOOSE k \in execs : \A j \in execs : k <= j], "id")
        ELSE Field(pins[1], "id")

\* C16: the sourceHandle of every edge the resolver returns from a source node
\* with output pins is the one the policy names, with the tokens exec, then,
\* true and out
C16_SourcePolicy ==
    gstatus = "returned" =>
        \A i \in 1..Len(parsedEdges) :
            (~IsNull(mappedEdges[i]) /\ NodeNamed(parsedEdges[i].source).data.outputs # <<>>)
            => mappedEdges[i].sourceHandle =
                   PolicyHandle(Field(parsedEdges[i], "sourceHandle"),
                                NodeNamed(parsedEdges[i].source).data.outputs,
                                {"exec", "then", "true", "out"})

\* two edges have been resolved on a source whose first output is a data pin
\* and whose second is Exec: the exec-like "bogus_out" was bound to the Exec
\* pin and "Data" to the first pin
C16_Witness ==
    /\ gstatus = "returned"
    /\ Len(validEdges) = 2
    /\ Field(parsedEdges[1], "sourceHandle") = "bogus_out"
    /\ Field(parsedEdges[2], "sourceHandle") = "Data"
    /\ validEdges[1].sourceHandle = "N1_Then"
    /\ validEdges[2].sourceHandle = "N1_Val"

\* C17: the targetHandle of every edge the resolver returns into a target node
\* with input pins is the one the policy names, with the single token exec
C17_TargetPolicy ==
    gstatus = "returned" =>
        \A i \in 1..Len(parsedEdges) :
            (~IsNull(mappedEdges[i]) /\ NodeNamed(parsedEdges[i].target).data.inputs # <<>>)
            => mappedEdges[i].targetHandle =
                   PolicyHandle(Field(parsedEdges[i], "targetHandle"),
                                NodeNamed(parsedEdges[i].target).data.inputs,
                                {"exec"})

\* two edges have been resolved into a node whose first input is a data pin
\* and whose second is its one Exec input: the edge without a targetHandle
\* was bound to the Exec pin and the edge with "then_in" to the data pin
C17_Witness ==
    /\ gstatus = "returned"
    /\ Len(validEdges) = 2
    /\ Field(parsedEdges[1], "targetHandle") = UNDEFINED
    /\ Field(parsedEdges[2], "targetHandle") = "then_in"
    /\ validEdges[1].targetHandle = "N2_Exec"
    /\ validEdges[2].targetHandle = "N2_In"

\* C18: a returned edge has the id its raw edge declares, and otherwise the
\* id {source}_{target}_{index}, index being the position of the raw edge in
\* the raw edge sequence, counted from 0
C18_EdgeIds ==
    gstatus = "returned" =>
        \A i \in 1..Len(parsedEdges) :
            ~IsNull(mappedEdges[i]) =>
                mappedEdges[i].id =
                    IF Field(parsedEdges[i], "id") # UNDEFINED THEN parsedEdges[i].id
                    ELSE parsedEdges[i].source \o "_" \o parsedEdges[i].target
                         \o "_" \o ToString(i - 1)

\* what the code does keep: a declared id
DeclaredIdKept ==
    gstatus = "returned" =>
        \A i \in 1..Len(parsedEdges) :
            (~IsNull(mappedEdges[i]) /\ Field(parsedEdges[i], "id") # UNDEFINED)
                => mappedEdges[i].id = parsedEdges[i].id

(***************************************************************************)
(* Properties of the layout.                                               *)
(***************************************************************************)
\* C1: the layout terminates on graphs with a directed cycle.  A queued rank
\* is the length of a walk from a seed of the queue, so in a relaxation that
\* ends no entry is ever queued at a rank as large as the number of nodes: such
\* a walk has gone round a cycle, and the next lap queues its nodes again, one
\* rank higher each time.
C1_RelaxationEnds ==
    \A i \in 1..Len(queue) : queue[i].rank < Len(lnodes)

\* the runs that do end never queued such a rank: every final rank is below
\* the number of nodes, and every node has a position
LayoutEndsBounded ==
    lpc = "done" =>
        /\ \A id \in DOMAIN ranks : ranks[id] < Len(lnodes)
        /\ DOMAIN positions = NodeIdsOf(lnodes)

\* the edges as pairs, and what is reachable from a set of ids in at most k steps
EdgePairs(edges) == {<<edges[i].source, edges[i].target>> : i \in 1..Len(edges)}

RECURSIVE Descendants(_, _, _)
Descendants(E, S, k) ==
    IF k = 0 THEN S
    ELSE Descendants(E, S \cup {e[2] : e \in {f \in E : f[1] \in S}}, k - 1)

Acyclic(nodes, edges) ==
    LET E == EdgePairs(edges)
    IN  \A a \in NodeIdsOf(nodes) :
            a \notin Descendants(E, {e[2] : e \in {f \in E : f[1] = a}}, Len(nodes))

\* every edge joins two nodes of the graph
EdgesJoinNodes(nodes, edges) ==
    \A i \in 1..Len(edges) :
        edges[i].source \in NodeIdsOf(nodes) /\ edges[i].target \in NodeIdsOf(nodes)

\* the target of each edge between nodes lies at least one column right of its source
RanksAscend ==
    \A i \in 1..Len(ledges) :
        (ledges[i].source \in DOMAIN positions /\ ledges[i].target \in DOMAIN positions)
            => positions[ledges[i].target].x >= positions[ledges[i].source].x + RANK_SPACING

Below(a, b) == ~FracLess(b.y, FracAdd(a.y, FracInt(nodeHeight + gap)))

\* the columns partition the nodes: each node is listed in one rankMap entry, once
PlacedOnce ==
    \A i \in 1..Len(lnodes) :
        LET r == finalRank(ranks, lnodes[i].id)
            column == rankMap(lnodes, ranks, r)
        IN  /\ r \in 0..maxRankOf(lnodes, ranks)
            /\ Cardinality({k \in 1..Len(column) : column[k] = lnodes[i].id}) = 1

\* C12: in a returned layout any two distinct nodes of one column are at least
\* nodeHeight + gap = 200 apart, and each node is placed exactly once
C12_NoOverlap ==
    lpc = "done" =>
        /\ PlacedOnce
        /\ \A a, b \in NodeIdsOf(lnodes) :
               (a # b /\ positions[a].x = positions[b].x)
                   => Below(positions[a], positions[b]) \/ Below(positions[b], positions[a])

\* two children of one parent share a column: the second one's barycenter is
\* the first one's y, and it has been pushed down to the cursor
C12_Witness ==
    /\ lpc = "done"
    /\ \E a, b \in NodeIdsOf(lnodes) :
           /\ a # b
           /\ positions[a].x = positions[b].x
           /\ positions[a].x > 0
           /\ inverseAdjacency(ledges, a) = inverseAdjacency(ledges, b)
           /\ inverseAdjacency(ledges, a) # <<>>
           /\ positions[b].y = FracAdd(positions[a].y, FracInt(nodeHeight + gap))

\* C13: the layout does not depend on the positions the nodes come in with: a
\* second call on the same nodes and edges, the nodes now carrying the
\* positions of the first call instead of the origin, returns the positions of
\* the first call
C13_PositionsIgnored ==
    (lpc = "done" /\ lagain) => positions = lfirst

\* the second call has returned, and its input differed from the first call's:
\* some node came in away from the origin
C13_Witness ==
    /\ lpc = "done"
    /\ lagain
    /\ \E id \in DOMAIN lfirst : lfirst[id].x > 0 \/ FracLess(FracInt(0), lfirst[id].y)

\* the kind of the node with the given id
layoutKindOf(id) ==
    lnodes[CHOOSE i \in 1..Len(lnodes) : lnodes[i].id = id].data.nodeType

\* the kinds Event and InputEvent of the NodeType enumeration
EventKinds == {"event", "input_event"}

\* C14: in every column every node of kind Event or InputEvent lies strictly
\* above every node of another kind
C14_EventsOnTop ==
    lpc = "done" =>
        \A a, b \in NodeIdsOf(lnodes) :
            ( /\ positions[a].x = positions[b].x
              /\ layoutKindOf(a) \in EventKinds
              /\ layoutKindOf(b) \notin EventKinds )
                => FracLess(positions[a].y, positions[b].y)

\* what the comparator does order: nodes of kind "event" above all others
EventKindOnTop ==
    lpc = "done" =>
        \A a, b \in NodeIdsOf(lnodes) :
            ( /\ positions[a].x = positions[b].x
              /\ layoutKindOf(a) = "event"
              /\ layoutKindOf(b) # "event" )
                => FracLess(positions[a].y, positions[b].y)

\* every node is in column 0
AllInColumnZero == \A id \in NodeIdsOf(lnodes) : positions[id].x = 0

\* C15 as stated: in a graph without edges every node has x = 0 and, whatever
\* the kinds, a node declared earlier lies strictly above a node declared later
C15_DeclarationOrder ==
    (lpc = "done" /\ ledges = <<>>) =>
        /\ AllInColumnZero
        /\ \A i, j \in 1..Len(lnodes) :
               i < j => FracLess(positions[lnodes[i].id].y, positions[lnodes[j].id].y)

\* C15, amended: in a graph without edges every node has x = 0 and, of two
\* nodes of the same kind, the one declared earlier lies strictly above
C15_DeclarationOrderPerKind ==
    (lpc = "done" /\ ledges = <<>>) =>
        /\ AllInColumnZero
        /\ \A i, j \in 1..Len(lnodes) :
               (i < j /\ lnodes[i].data.nodeType = lnodes[j].data.nodeType)
                   => FracLess(positions[lnodes[i].id].y, positions[lnodes[j].id].y)

\* a graph without edges has been laid out: two nodes of one kind, and between
\* them in declaration order a node of another kind
C15_Witness ==
    /\ lpc = "done"
    /\ ledges = <<>>
    /\ Len(lnodes) = 3
    /\ lnodes[1].data.nodeType = lnodes[3].data.nodeType
    /\ lnodes[1].data.nodeType # lnodes[2].data.nodeType

(***************************************************************************)
(* Properties of the editor.                                               *)
(***************************************************************************)
\* the pins of the editor's nodes: is (id, handle) an output / input pin of
\* the given kind
IsOutputPin(id, handle, types) ==
    \E i \in 1..Len(enodes) :
        /\ enodes[i].id = id
        /\ \E p \in 1..Len(enodes[i].data.outputs) :
               /\ enodes[i].data.outputs[p].id = handle
               /\ enodes[i].data.outputs[p].type \in types
IsInputPin(id, handle, types) ==
    \E i \in 1..Len(enodes) :
        /\ enodes[i].id = id
        /\ \E p \in 1..Len(enodes[i].data.inputs) :
               /\ enodes[i].data.inputs[p].id = handle
               /\ enodes[i].data.inputs[p].type \in types

DataTypes == {"boolean", "integer", "float", "string", "vector", "rotator", "object",
              "class", "struct", "byte", "name", "text", "delegate"}

\* the edges of a list that leave / enter a pin
Leaving(edges, id, handle) ==
    {k \in 1..Len(edges) : edges[k].source = id /\ edges[k].sourceHandle = handle}
Entering(edges, id, handle) ==
    {k \in 1..Len(edges) : edges[k].target = id /\ edges[k].targetHandle = handle}

\* C19: after an onConnect from an Exec output pin, exactly one edge leaves
\* that pin, and it is the new connection
C19_ExecOutputSingle ==
    (elast.op = "connect"
     /\ IsOutputPin(elast.params.source, elast.params.sourceHandle, {"exec"}))
    => LET out == Leaving(eedges, elast.params.source, elast.params.sourceHandle)
       IN  /\ Cardinality(out) = 1
           /\ \A k \in out : /\ eedges[k].target = elast.params.target
                              /\ eedges[k].targetHandle = elast.params.targetHandle

\* a connection was made from an Exec output that had two outgoing edges, to
\* a pin neither of them reached
C19_Witness ==
    /\ elast.op = "connect"
    /\ IsOutputPin(elast.params.source, elast.params.sourceHandle, {"exec"})
    /\ Cardinality(Leaving(eprev, elast.params.source, elast.params.sourceHandle)) = 2
    /\ \A k \in Leaving(eprev, elast.params.source, elast.params.sourceHandle) :
           eprev[k].target # elast.params.target
    /\ Cardinality(Leaving(eedges, elast.params.source, elast.params.sourceHandle)) = 1

\* C20: after an onConnect into a non-Exec input pin, exactly one edge enters
\* that pin, and it is the new connection
C20_DataInputSingle ==
    (elast.op = "connect"
     /\ IsInputPin(elast.params.target, elast.params.targetHandle, DataTypes))
    => LET into == Entering(eedges, elast.params.target, elast.params.targetHandle)
       IN  /\ Cardinality(into) = 1
           /\ \A k \in into : /\ eedges[k].source = elast.params.source
                               /\ eedges[k].sourceHandle = elast.params.sourceHandle

\* a connection was made into a data input that had two incoming edges, from
\* a pin neither of them left
C20_Witness ==
    /\ elast.op = "connect"
    /\ IsInputPin(elast.params.target, elast.params.targetHandle, DataTypes)
    /\ Cardinality(Entering(eprev, elast.params.target, elast.params.targetHandle)) = 2
    /\ \A k \in Entering(eprev, elast.params.target, elast.params.targetHandle) :
           eprev[k].source # elast.params.source
    /\ Cardinality(Entering(eedges, elast.params.target, elast.params.targetHandle)) = 1

\* the edges of the list before the last operation that are no longer in the
\* list after it
Removed == {k \in 1..Len(eprev) : \A j \in 1..Len(eedges) : eedges[j] # eprev[k]}

\* C21: an onConnect into an Exec input pin removes no edge that entered that
\* pin from another source pin, and an onConnect from a non-Exec output pin
\* removes no edge that left that pin to another target pin
C21_FanPreserved ==
    elast.op = "connect"
    => /\ IsInputPin(elast.params.target, elast.params.targetHandle, {"exec"})
          => \A k \in Entering(eprev, elast.params.target, elast.params.targetHandle) :
                 (eprev[k].source # elast.params.source
                  \/ eprev[k].sourceHandle # elast.params.sourceHandle)
                 => k \notin Removed
       /\ IsOutputPin(elast.params.source, elast.params.sourceHandle, DataTypes)
          => \A k \in Leaving(eprev, elast.params.source, elast.params.sourceHandle) :
                 (eprev[k].target # elast.params.target
                  \/ eprev[k].targetHandle # elast.params.targetHandle)
                 => k \notin Removed

\* C27: an onConnect removes no edge whose source node is not the new
\* connection's source node and whose target node is not its target node
C27_OtherNodesUntouched ==
    elast.op = "connect"
    => \A k \in 1..Len(eprev) :
           (eprev[k].source # elast.params.source
            /\ eprev[k].target # elast.params.target)
           => k \notin Removed

\* C28: an alt-click on a pin of a node removes the edges attached to that
\* pin of that node (leaving it if it is an output, entering it if it is an
\* input), and no other edge
AttachedTo(edges, pin) ==
    IF pin.side = "output" THEN Leaving(edges, pin.node, pin.handle)
    ELSE Entering(edges, pin.node, pin.handle)

C28_PinClickExact ==
    (elast.op = "pinClick" /\ elast.altKey)
    => /\ Removed = AttachedTo(eprev, elast.pin)
       /\ eedges = SelectSeq(eprev, LAMBDA e : \E j \in 1..Len(eedges) : eedges[j] = e)

\* C29: at onReconnectEnd the dragged edge is deleted exactly when the gesture
\* saw no onReconnect, and the flag is false afterwards
C29_ReconnectProtocol ==
    elast.op = "reconnectEnd"
    => /\ ~elast.reconnected
          => /\ eedges = dropEdgeId(eprev, elast.edge.id)
             /\ \A j \in 1..Len(eedges) : eedges[j].id # elast.edge.id
       /\ elast.reconnected => eedges = eprev
       /\ edgeReconnectSuccessful = FALSE

\* a gesture without onReconnect has deleted an edge that an earlier gesture
\* had reconnected (edges get an xy-edge id only from a reconnection here)
C29_Witness ==
    /\ elast.op = "reconnectEnd"
    /\ ~elast.reconnected
    /\ elast.edge.id \notin {"g" \o ToString(k) : k \in 1..(MaxSessionEdges + 1)}
    /\ \E k \in 1..Len(eprev) : eprev[k].id = elast.edge.id
    /\ \A j \in 1..Len(eedges) : eedges[j].id # elast.edge.id

\* C26: each Exec output pin has at most one outgoing edge and each non-Exec
\* input pin at most one incoming edge, in every state of an editing session
C26_SingleLinkPins ==
    /\ \A pin \in PinsOf(enodes) :
          (pin.side = "output" /\ IsOutputPin(pin.node, pin.handle, {"exec"}))
          => Cardinality(Leaving(eedges, pin.node, pin.handle)) <= 1
    /\ \A pin \in PinsOf(enodes) :
          (pin.side = "input" /\ IsInputPin(pin.node, pin.handle, DataTypes))
          => Cardinality(Entering(eedges, pin.node, pin.handle)) <= 1

(***************************************************************************)
(* Properties of the normalizer: duplicates.                               *)
(***************************************************************************)
\* the names that more pins of the list carry after the latest application
\* than before it, although a pin of the list carried them before
RepeatedNames(before, after) ==
    {Field(after[i], "name") : i \in 1..Len(after)}
    \cap {name \in {Field(before[i], "name") : i \in 1..Len(before)} :
             Cardinality(NamedPins(after, name)) > Cardinality(NamedPins(before, name))}

\* C23: an application of ensureDefaultPins to a well-formed node adds no pin
\* whose name a pin on the same side of the node already has
C23_NoDuplicateNames ==
    (napplied >= 1 /\ IsWellFormed(rawNode))
    => /\ RepeatedNames(nprev.inputs, node.inputs) = {}
       /\ RepeatedNames(nprev.outputs, node.outputs) = {}

\* the pins of a list have pairwise distinct ids
DistinctIds(list) ==
    \A i, j \in 1..Len(list) : i # j => Field(list[i], "id") # Field(list[j], "id")

\* C25: a well-formed raw node whose pin ids are pairwise distinct has, after
\* normalization, no two inputs with one id and no two outputs with one id
C25_PinIdsUnique ==
    ( /\ napplied >= 1
      /\ IsWellFormed(rawNode)
      /\ DistinctIds(rawNode.inputs \o rawNode.outputs) )
    => /\ DistinctIds(node.inputs)
       /\ DistinctIds(node.outputs)

(***************************************************************************)
(* Properties of the layout: layering.                                     *)
(***************************************************************************)
\* the number of edges on the longest directed path that ends at id (defined
\* on acyclic graphs; every such path starts at a node with no incoming edge)
RECURSIVE LongestPathTo(_, _)
LongestPathTo(edges, id) ==
    LET preds == {edges[i].source : i \in {k \in 1..Len(edges) : edges[k].target = id}}
        lens == {LongestPathTo(edges, p) : p \in preds}
    IN  IF preds = {} THEN 0
        ELSE 1 + CHOOSE m \in lens : \A l \in lens : l <= m

\* C24: on an acyclic graph the final rank of each node is the length of the
\* longest path ending at it, a node with no incoming edge has rank 0, and
\* every column from 0 to the maximum rank of a node holds a node
C24_LongestPathLayering ==
    (lpc = "done" /\ Acyclic(lnodes, ledges) /\ EdgesJoinNodes(lnodes, ledges))
    => /\ \A i \in 1..Len(lnodes) :
              finalRank(ranks, lnodes[i].id) = LongestPathTo(ledges, lnodes[i].id)
       /\ \A i \in 1..Len(lnodes) :
              inverseAdjacency(ledges, lnodes[i].id) = <<>>
              => finalRank(ranks, lnodes[i].id) = 0
       /\ lnodes # <<>>
          => \A r \in 0..maxRankOf(lnodes, ranks) : rankMap(lnodes, ranks, r) # <<>>

\* a node entered both from a node of rank 0 and from a node of rank 1 has
\* been given rank 2
C24_Witness ==
    /\ lpc = "done"
    /\ Acyclic(lnodes, ledges)
    /\ EdgesJoinNodes(lnodes, ledges)
    /\ \E i, j \in 1..Len(ledges) :
          /\ ledges[i].target = ledges[j].target
          /\ finalRank(ranks, ledges[i].source) = 0
          /\ finalRank(ranks, ledges[j].source) = 1
          /\ finalRank(ranks, ledges[i].target) = 2

(***************************************************************************)
(* Properties of handleGenerate.                                           *)
(***************************************************************************)
\* C22: at most one generateBlueprint call is pending at any time
C22_OneRequestInFlight == pending <= 1

\* a call is pending while the prompt holds text: a submission now would start
\* a second call, and the form does not let it through
C22_Witness ==
    /\ pending = 1
    /\ loading
    /\ trim(prompt) # ""
    /\ ~ENABLED Submit

\* a call that rejects leaves nodes and edges as they were, sets an error
\* message and ends loading
FailureHandled ==
    [][(pending' = pending - 1 /\ lpc' = "idle")
       => /\ enodes' = enodes
          /\ eedges' = eedges
          /\ error' # Null
          /\ loading' = FALSE]_vars

\* C30: a failed generation leaves nodes and edges as they were, sets an error
\* message and ends loading; loading ends after every generation, failed or not
C30_LoadingEnds ==
    /\ FailureHandled
    /\ loading ~> ~loading

====
